---- MODULE Spec2Model ----
(***************************************************************************)
(* Model of lib/dialects/auroraSls/connection-manager.js: the connection   *)
(* manager that presents the stateless RDS Data Service as a pooled        *)
(* connection.  The state is the connect futures, the closures the         *)
(* Connections capture, the requests in flight at the transport, the       *)
(* exceptions raised out of completion callbacks, and the parser store.    *)
(***************************************************************************)
EXTENDS Integers, FiniteSets, Sequences, TLC

\* ------------------------------------------------------------------ bounds
\* connect() calls made in one run
MaxCalls == 2
\* query()/execute() calls made by the pool in one run
MaxQueries == 2

\* ------------------------------------------------------------------ values
CallIds == 1..MaxCalls
QueryIds == 1..MaxQueries

\* The configs the pool layer passes to connect().  Each is an object; a
\* Connection captures the reference to its dialectOptions.
ConfigIds == {"cfgA", "cfgB"}

\* config.dialectOptions of each config.  cfgB carries no schema.
DialectOptionsOf(cfg) ==
  [ awsConfig              |-> <<"awsConfig", cfg>>,
    awsSecretStoreArn      |-> <<"secret", cfg>>,
    dbClusterOrInstanceArn |-> <<"arn", cfg>>,
    database               |-> <<"db", cfg>>,
    schema                 |-> IF cfg = "cfgA" THEN <<"schema", cfg>> ELSE <<"undefined">> ]

NoOptions ==
  [ awsConfig              |-> <<"undefined">>,
    awsSecretStoreArn      |-> <<"undefined">>,
    dbClusterOrInstanceArn |-> <<"undefined">>,
    database               |-> <<"undefined">>,
    schema                 |-> <<"undefined">> ]

\* The statement connect() sends to test the connection (the source quotes
\* the alias in backquotes).
ProbeSql == "SELECT VERSION() as version"
\* Statements the pool sends through a Connection.
UserSqls == {"SELECT 1", "SELECT 2"}
Methods == {"query", "execute"}

\* err.code values the transport reports; "<none>" is an error with no code.
TableCodes == {"ECONNREFUSED", "ER_ACCESS_DENIED_ERROR", "ENOTFOUND",
               "EHOSTUNREACH", "EINVAL"}
ErrorCodes == TableCodes \cup {"ETIMEDOUT", "<none>"}

\* The handler of a request: the probe callback of connect call `call`, or the
\* pool's handler of its `query`-th statement.
ProbeHandler(c) == [kind |-> "probe", call |-> c, query |-> 0]
UserHandler(q) == [kind |-> "user", call |-> 0, query |-> q]
NoHandler == [kind |-> "none", call |-> 0, query |-> 0]

\* The error object the transport hands to a callback: null, or an error
\* created for one request.
NoError == [code |-> "<null>", handler |-> NoHandler]
\* The callback has not been invoked yet.
NotCompleted == [code |-> "<pending>", handler |-> NoHandler]
RawError(code, h) == [code |-> code, handler |-> h]

\* Values carried by futures, return values and raised exceptions.
Undefined == [tag |-> "undefined", conn |-> 0, name |-> "", parent |-> NoError]
Null == [tag |-> "null", conn |-> 0, name |-> "", parent |-> NoError]
ConnectionRef(c) == [tag |-> "connection", conn |-> c, name |-> "", parent |-> NoError]
\* new SequelizeErrors.<name>(err): the error constructed, by its class and
\* the raw error passed to its constructor.
SequelizeError(name, err) == [tag |-> "error", conn |-> 0, name |-> name, parent |-> err]

\* A future: pending, or settled with a value.
PendingFuture == [state |-> "pending", value |-> Undefined]
ResolvedFuture(v) == [state |-> "resolved", value |-> v]
RejectedFuture(e) == [state |-> "rejected", value |-> e]
NoFuture == [state |-> "none", value |-> Undefined]

\* What the query closure of one connect() call closes over: the
\* dialectOptions reference and the RDSDataService client built from its
\* awsConfig.  A Connection object has two fields, each holding a closure.
NoClosure == [dialectOptions |-> "none", rds |-> <<"undefined">>]
NoConnection == [query |-> NoClosure, execute |-> NoClosure]
OptionsOf(ref) == IF ref \in ConfigIds THEN DialectOptionsOf(ref) ELSE NoOptions

\* Column types with a parser in the store, and the parse functions.
TypeIds == {"DATETIME", "DECIMAL"}
ParseFns == {"parseDefault", "parseCustom"}
Absent == "absent"
\* DataTypes.auroraSls: the dialect's data types that carry a parse function.
DataTypes == {[types |-> {"DATETIME"}, parse |-> "parseDefault"],
              [types |-> {"DECIMAL"}, parse |-> "parseDefault"]}
\* Data types a caller may pass to refreshTypeParser.
RefreshInputs == DataTypes \cup {[types |-> {"DATETIME"}, parse |-> "parseCustom"],
                                 [types |-> TypeIds, parse |-> "parseCustom"]}

\* The Manager instances of the process.
Managers == {"m1", "m2"}
\* config.port as configured: not set, null, or a number.
DefaultPort == 3306
PortInputs == {<<"undefined">>, <<"null">>, <<"number", 0>>, <<"number", DefaultPort>>,
               <<"number", 5432>>}
NotConstructed == [constructed |-> FALSE, configured |-> <<"undefined">>,
                   port |-> <<"undefined">>]
\* this.sequelize.options of Manager m.
SequelizeOptions(m) == <<"options", m>>
\* The receiver of a _typecast call: the class, as for any static method, or
\* a Manager the caller bound it to.
ClassReceiver == "ConnectionManager"

\* A registry call: which, through which Manager, with which data type.
NoDataType == [types |-> {}, parse |-> Absent]
NoRegOp == [op |-> "none", manager |-> "", dataType |-> NoDataType]
\* A _typecast call: where it stands, its field.type and receiver, the entry
\* its test read, the decoder it invoked and the options it passed.
NoCast == [pc |-> "idle", type |-> "", receiver |-> "", tested |-> Absent,
           invoked |-> "none", options |-> <<"undefined">>, outcome |-> "none",
           yielded |-> FALSE]

\* ------------------------------------------------------------------ state
VARIABLES
  nCalls,       \* connect() calls made so far; call c builds Connection c
  config,       \* config[c]: the config connect call c was given
  connection,   \* connection[c]: the Connection object connect call c built
  promise,      \* promise[c]: the future connect call c returned
  probeCount,   \* probeCount[c]: transport requests issued by connect call c
  nQueries,     \* query()/execute() calls made so far
  queryCount,   \* queryCount[q]: transport requests issued by the q-th call
  inflight,     \* requests the transport has accepted and not yet completed
  probeErr,     \* probeErr[c]: the err the probe callback of call c was invoked with
  uncaught,     \* exceptions raised out of a completion callback
  delivered,    \* what a handler of the pool was last invoked with, and for which Connection
  ret,          \* outcome of the last disconnect()/validate() call
  disconnected, \* the Connections that have been passed to disconnect()
  parserStore,  \* the 'mysql' parser store: type id -> parse function
  manager,      \* manager[m]: whether Manager m is constructed, and its config.port
  regOp,        \* the last constructor, _refreshTypeParser or _clearTypeParser call
  tc            \* the _typecast call in progress or last completed

vars == <<nCalls, config, connection, promise, probeCount, nQueries, queryCount,
          inflight, probeErr, uncaught, delivered, ret, disconnected, parserStore,
          manager, regOp, tc>>

NoOrigin == [conn |-> 0, method |-> "", sql |-> "", reused |-> FALSE]
NoDelivery == [handler |-> NoHandler, conn |-> 0,
               raw |-> NoError, err |-> NoError, data |-> NoHandler]
NoReturn == [op |-> "none", arg |-> Undefined, outcome |-> "none",
             future |-> NoFuture, value |-> Undefined]

\* ------------------------------------------------------------------ helpers
\* A parameter object whose schema line reads the database option.
ExecuteSqlParamsSchemaSlip(opts, sql) ==
  [ awsSecretStoreArn      |-> opts.awsSecretStoreArn,
    dbClusterOrInstanceArn |-> opts.dbClusterOrInstanceArn,
    sqlStatements          |-> sql,
    database               |-> opts.database,
    schema                 |-> opts.database ]

\* The parameter object the query closure passes to rds.executeSql.
ExecuteSqlParams(opts, sql) ==
  [ awsSecretStoreArn      |-> opts.awsSecretStoreArn,
    dbClusterOrInstanceArn |-> opts.dbClusterOrInstanceArn,
    sqlStatements          |-> sql,
    database               |-> opts.database,
    schema                 |-> opts.schema ]

\* query({ sql }, handler): one executeSql call on the captured client, with
\* the caller's handler as the completion callback.  `origin` remembers which
\* invocation issued the request: the Connection, the method, the statement,
\* and whether the Connection had been passed to disconnect() before.
QueryRequest(cl, sql, handler, origin) ==
  [ client  |-> cl.rds,
    params  |-> ExecuteSqlParams(OptionsOf(cl.dialectOptions), sql),
    handler |-> handler,
    origin  |-> origin ]

\* const connection = { query, execute: query } for a connect(config) call.
NewConnection(cfg) ==
  LET query == [dialectOptions |-> cfg, rds |-> DialectOptionsOf(cfg).awsConfig]
  IN  [query |-> query, execute |-> query]

\* A switch whose ENOTFOUND and EHOSTUNREACH cases are exchanged.
ErrorKindForSwapped(code) ==
  CASE code = "ECONNREFUSED"           -> "ConnectionRefusedError"
    [] code = "ER_ACCESS_DENIED_ERROR" -> "AccessDeniedError"
    [] code = "ENOTFOUND"              -> "HostNotReachableError"
    [] code = "EHOSTUNREACH"           -> "HostNotFoundError"
    [] code = "EINVAL"                 -> "InvalidConnectionError"
    [] OTHER                           -> "ConnectionError"

\* switch (err.code): the name of the error class constructed.
ErrorKindFor(code) ==
  CASE code = "ECONNREFUSED"           -> "ConnectionRefusedError"
    [] code = "ER_ACCESS_DENIED_ERROR" -> "AccessDeniedError"
    [] code = "ENOTFOUND"              -> "HostNotFoundError"
    [] code = "EHOSTUNREACH"           -> "HostNotReachableError"
    [] code = "EINVAL"                 -> "InvalidConnectionError"
    [] OTHER                           -> "ConnectionError"

\* The probe's completion callback, err => { ... }, run by the transport after
\* connect() has returned: what it throws and how it settles the future.
NoThrow == Undefined
\* A callback that calls resolve() without the Connection.
ProbeCallbackEffectNoValue(c, err) ==
  IF err /= NoError
  THEN [thrown |-> SequelizeError(ErrorKindFor(err.code), err), settle |-> NoFuture]
  ELSE [thrown |-> NoThrow, settle |-> ResolvedFuture(Undefined)]

ProbeCallbackEffect(c, err) ==
  IF err /= NoError
  THEN [thrown |-> SequelizeError(ErrorKindFor(err.code), err), settle |-> NoFuture]
  ELSE [thrown |-> NoThrow, settle |-> ResolvedFuture(ConnectionRef(c))]

\* Settling a future takes effect only while it is pending.
Settle(f, with) == IF f.state = "pending" /\ with /= NoFuture THEN with ELSE f

\* ------------------------------------------------------------------ actions
Init ==
  /\ nCalls = 0
  /\ config = [c \in CallIds |-> "none"]
  /\ connection = [c \in CallIds |-> NoConnection]
  /\ promise = [c \in CallIds |-> NoFuture]
  /\ probeCount = [c \in CallIds |-> 0]
  /\ nQueries = 0
  /\ queryCount = [q \in QueryIds |-> 0]
  /\ inflight = {}
  /\ probeErr = [c \in CallIds |-> NotCompleted]
  /\ uncaught = {}
  /\ delivered = NoDelivery
  /\ ret = NoReturn
  /\ disconnected = {}
  \* the constructor has run refreshTypeParser(DataTypes)
  /\ parserStore = [t \in TypeIds |->
                      IF \E d \in DataTypes : t \in d.types
                      THEN (CHOOSE d \in DataTypes : t \in d.types).parse
                      ELSE Absent]
  \* for Manager m1, configured without a port
  /\ manager = [m \in Managers |->
                  IF m = "m1"
                  THEN [constructed |-> TRUE, configured |-> <<"undefined">>,
                        port |-> <<"number", DefaultPort>>]
                  ELSE NotConstructed]
  /\ regOp = [op |-> "construct", manager |-> "m1", dataType |-> NoDataType]
  /\ tc = NoCast

\* A connect() that keeps dialectOptions and the client in variables shared by
\* every Connection, so each call re-points the Connections built before it.
connectSharedOptions(cfg) ==
  /\ nCalls < MaxCalls
  /\ LET c == nCalls + 1
         conn == NewConnection(cfg)
         origin == [conn |-> c, method |-> "query", sql |-> ProbeSql, reused |-> FALSE]
     IN  /\ nCalls' = c
         /\ config' = [config EXCEPT ![c] = cfg]
         /\ connection' = [d \in CallIds |-> IF d <= c THEN conn ELSE connection[d]]
         /\ promise' = [promise EXCEPT ![c] = PendingFuture]
         /\ inflight' = inflight \cup
                          {QueryRequest(conn.query, ProbeSql, ProbeHandler(c), origin)}
         /\ probeCount' = [probeCount EXCEPT ![c] = @ + 1]
  /\ UNCHANGED <<nQueries, queryCount, probeErr, uncaught, delivered, ret,
                 disconnected, parserStore,
                 manager, regOp, tc>>

\* connect(config)
connect(cfg) ==
  /\ nCalls < MaxCalls
  /\ LET c == nCalls + 1
         conn == NewConnection(cfg)
         origin == [conn |-> c, method |-> "query", sql |-> ProbeSql, reused |-> FALSE]
     IN  /\ nCalls' = c
         /\ config' = [config EXCEPT ![c] = cfg]
         /\ connection' = [connection EXCEPT ![c] = conn]
         /\ promise' = [promise EXCEPT ![c] = PendingFuture]
         /\ inflight' = inflight \cup
                          {QueryRequest(conn.query, ProbeSql, ProbeHandler(c), origin)}
         /\ probeCount' = [probeCount EXCEPT ![c] = @ + 1]
  /\ UNCHANGED <<nQueries, queryCount, probeErr, uncaught, delivered, ret,
                 disconnected, parserStore,
                 manager, regOp, tc>>

\* A callback that sends the probe once more when it failed.
probeCallbackRetrying(r, err) ==
  /\ r \in inflight
  /\ r.handler.kind = "probe"
  /\ LET c == r.handler.call
         eff == ProbeCallbackEffect(c, err)
         retry == err /= NoError /\ probeCount[c] < 2
     IN  /\ inflight' = IF retry THEN inflight ELSE inflight \ {r}
         /\ probeCount' = [probeCount EXCEPT ![c] = IF retry THEN @ + 1 ELSE @]
         /\ probeErr' = [probeErr EXCEPT ![c] = err]
         /\ promise' = [promise EXCEPT ![c] = Settle(@, eff.settle)]
         /\ uncaught' = IF eff.thrown /= NoThrow /\ ~retry
                        THEN uncaught \cup {[handler |-> r.handler, error |-> eff.thrown]}
                        ELSE uncaught
  /\ UNCHANGED <<nCalls, config, connection, nQueries, queryCount,
                 delivered, ret, disconnected, parserStore,
                 manager, regOp, tc>>

\* The transport completes the probe of a connect call and invokes its callback.
probeCallback(r, err) ==
  /\ r \in inflight
  /\ r.handler.kind = "probe"
  /\ LET c == r.handler.call
         eff == ProbeCallbackEffect(c, err)
     IN  /\ inflight' = inflight \ {r}
         /\ probeErr' = [probeErr EXCEPT ![c] = err]
         /\ promise' = [promise EXCEPT ![c] = Settle(@, eff.settle)]
         /\ uncaught' = IF eff.thrown /= NoThrow
                        THEN uncaught \cup {[handler |-> r.handler, error |-> eff.thrown]}
                        ELSE uncaught
  /\ UNCHANGED <<nCalls, config, connection, probeCount, nQueries, queryCount,
                 delivered, ret, disconnected, parserStore,
                 manager, regOp, tc>>

\* The pool calls connection.query(request, handler) or
\* connection.execute(request, handler) on a Connection it was given.
userQuery(c, method, sql) ==
  /\ nQueries < MaxQueries
  /\ c \in 1..nCalls
  /\ promise[c] = ResolvedFuture(ConnectionRef(c))
  /\ LET q == nQueries + 1
         origin == [conn |-> c, method |-> method, sql |-> sql,
                    reused |-> c \in disconnected]
     IN  /\ nQueries' = q
         /\ inflight' = inflight \cup
                          {QueryRequest(connection[c][method], sql, UserHandler(q), origin)}
         /\ queryCount' = [queryCount EXCEPT ![q] = @ + 1]
  /\ UNCHANGED <<nCalls, config, connection, promise, probeCount, probeErr,
                 uncaught, delivered,
                 ret, disconnected, parserStore,
                 manager, regOp, tc>>

\* A query closure that wraps the handler and classifies the error as
\* connect() does before passing it on.
queryCallbackClassifying(r, err) ==
  /\ r \in inflight
  /\ r.handler.kind = "user"
  /\ inflight' = inflight \ {r}
  /\ delivered' = [handler |-> r.handler, conn |-> r.origin.conn, raw |-> err,
                   err |-> IF err = NoError THEN NoError
                           ELSE SequelizeError(ErrorKindFor(err.code), err),
                   data |-> IF err = NoError THEN r.handler ELSE NoHandler]
  /\ UNCHANGED <<nCalls, config, connection, promise, probeCount, nQueries,
                 queryCount, probeErr, uncaught, ret, disconnected, parserStore,
                 manager, regOp, tc>>

\* The transport completes a statement and invokes the pool's handler, which
\* the query closure handed to executeSql as it was.
queryCallback(r, err) ==
  /\ r \in inflight
  /\ r.handler.kind = "user"
  /\ inflight' = inflight \ {r}
  /\ delivered' = [handler |-> r.handler, conn |-> r.origin.conn, raw |-> err,
                   err |-> err,
                   data |-> IF err = NoError THEN r.handler ELSE NoHandler]
  /\ UNCHANGED <<nCalls, config, connection, promise, probeCount, nQueries,
                 queryCount, probeErr, uncaught, ret, disconnected, parserStore,
                 manager, regOp, tc>>

\* A disconnect() that tears its argument down as a socket-backed driver
\* does, and so fails on an argument that is no Connection.
disconnectEnding(x) ==
  /\ ret' = IF x.tag = "connection"
            THEN [op |-> "disconnect", arg |-> x, outcome |-> "returned",
                  future |-> ResolvedFuture(Undefined), value |-> Undefined]
            ELSE [op |-> "disconnect", arg |-> x, outcome |-> "threw",
                  future |-> NoFuture, value |-> SequelizeError("TypeError", NoError)]
  /\ disconnected' = IF x.tag = "connection" THEN disconnected \cup {x.conn}
                     ELSE disconnected
  /\ UNCHANGED <<nCalls, config, connection, promise, probeCount, nQueries,
                 queryCount, inflight, probeErr, uncaught, delivered, parserStore,
                 manager, regOp, tc>>

\* disconnect()
disconnect(x) ==
  /\ ret' = [op |-> "disconnect", arg |-> x, outcome |-> "returned",
             future |-> ResolvedFuture(Undefined), value |-> Undefined]
  /\ disconnected' = IF x.tag = "connection" THEN disconnected \cup {x.conn}
                     ELSE disconnected
  /\ UNCHANGED <<nCalls, config, connection, promise, probeCount, nQueries,
                 queryCount, inflight, probeErr, uncaught, delivered, parserStore,
                 manager, regOp, tc>>

\* A validate() that answers with a boolean, as the socket-backed drivers do.
validateAsBoolean(x) ==
  /\ ret' = [op |-> "validate", arg |-> x, outcome |-> "returned",
             future |-> NoFuture,
             value |-> [tag |-> "boolean", conn |-> 0,
                        name |-> IF x.tag = "connection" THEN "true" ELSE "false",
                        parent |-> NoError]]
  /\ UNCHANGED <<nCalls, config, connection, promise, probeCount, nQueries,
                 queryCount, inflight, probeErr, uncaught, delivered, disconnected, parserStore,
                 manager, regOp, tc>>

\* validate(connection)
validate(x) ==
  /\ ret' = [op |-> "validate", arg |-> x, outcome |-> "returned",
             future |-> NoFuture, value |-> x]
  /\ UNCHANGED <<nCalls, config, connection, promise, probeCount, nQueries,
                 queryCount, inflight, probeErr, uncaught, delivered, disconnected, parserStore,
                 manager, regOp, tc>>

\* ------------------------------------------------------- the parser store
\* parserStore.refresh(dataType): the parse function of dataType becomes the
\* entry of each of its type ids.
StoreRefresh(store, dataType) ==
  [t \in TypeIds |-> IF t \in dataType.types THEN dataType.parse ELSE store[t]]
\* parserStore.clear(): no type id has an entry.
StoreClear(store) == [t \in TypeIds |-> Absent]
\* parserStore.get(type): the entry of the type id, or none.
StoreGet(store, t) == store[t]

\* refreshTypeParser(dataTypes) of the abstract manager: _refreshTypeParser
\* for every data type that has a parse function.
RECURSIVE RefreshAll(_, _)
RefreshAll(store, dataTypes) ==
  IF dataTypes = {} THEN store
  ELSE LET d == CHOOSE x \in dataTypes : TRUE
       IN RefreshAll(StoreRefresh(store, d), dataTypes \ {d})

\* sequelize.config.port || 3306
Falsy(p) == p \in {<<"undefined">>, <<"null">>, <<"number", 0>>}
DefaultedPort(p) == IF Falsy(p) THEN <<"number", DefaultPort>> ELSE p

\* A function runs to completion: nothing else runs between two statements
\* of _typecast unless it yields.
RunToCompletion == tc.pc /= "tested" \/ tc.yielded
Constructed == {m \in Managers : manager[m].constructed}

\* new ConnectionManager(dialect, sequelize), the port configured as p.
construct(m, p) ==
  /\ RunToCompletion
  /\ ~manager[m].constructed
  /\ manager' = [manager EXCEPT ![m] = [constructed |-> TRUE, configured |-> p,
                                        port |-> DefaultedPort(p)]]
  /\ parserStore' = RefreshAll(parserStore, DataTypes)
  /\ regOp' = [op |-> "construct", manager |-> m, dataType |-> NoDataType]
  /\ UNCHANGED <<nCalls, config, connection, promise, probeCount, nQueries,
                 queryCount, inflight, probeErr, uncaught, delivered, ret,
                 disconnected, tc>>

\* _refreshTypeParser(dataType) of Manager m, replacing the store's content.
refreshTypeParserReplacing(m, dataType) ==
  /\ RunToCompletion
  /\ m \in Constructed
  /\ parserStore' = StoreRefresh(StoreClear(parserStore), dataType)
  /\ regOp' = [op |-> "refresh", manager |-> m, dataType |-> dataType]
  /\ UNCHANGED <<nCalls, config, connection, promise, probeCount, nQueries,
                 queryCount, inflight, probeErr, uncaught, delivered, ret,
                 disconnected, manager, tc>>

\* _refreshTypeParser(dataType) of Manager m: parserStore.refresh(dataType)
refreshTypeParser(m, dataType) ==
  /\ RunToCompletion
  /\ m \in Constructed
  /\ parserStore' = StoreRefresh(parserStore, dataType)
  /\ regOp' = [op |-> "refresh", manager |-> m, dataType |-> dataType]
  /\ UNCHANGED <<nCalls, config, connection, promise, probeCount, nQueries,
                 queryCount, inflight, probeErr, uncaught, delivered, ret,
                 disconnected, manager, tc>>

\* _clearTypeParser() of Manager m: parserStore.clear()
clearTypeParser(m) ==
  /\ RunToCompletion
  /\ m \in Constructed
  /\ parserStore' = StoreClear(parserStore)
  /\ regOp' = [op |-> "clear", manager |-> m, dataType |-> NoDataType]
  /\ UNCHANGED <<nCalls, config, connection, promise, probeCount, nQueries,
                 queryCount, inflight, probeErr, uncaught, delivered, ret,
                 disconnected, manager, tc>>

\* The receivers a caller may invoke _typecast on.
Receivers == {ClassReceiver} \cup Constructed
\* `this.sequelize` of a receiver: only a Manager has one.
HasSequelize(receiver) == receiver \in Managers

\* _typecast(field, next), the test awaiting before the decoder is invoked.
typecastTestAwaiting(type, receiver) ==
  /\ tc.pc /= "tested"
  /\ receiver \in Receivers
  /\ tc' = [pc |-> "tested", type |-> type, receiver |-> receiver,
            tested |-> StoreGet(parserStore, type), invoked |-> "none",
            options |-> <<"undefined">>, outcome |-> "none", yielded |-> TRUE]
  /\ UNCHANGED <<nCalls, config, connection, promise, probeCount, nQueries,
                 queryCount, inflight, probeErr, uncaught, delivered, ret,
                 disconnected, parserStore, manager, regOp>>

\* _typecast(field, next), the test: if (parserStore.get(field.type))
typecastTest(type, receiver) ==
  /\ tc.pc /= "tested"
  /\ receiver \in Receivers
  /\ tc' = [pc |-> "tested", type |-> type, receiver |-> receiver,
            tested |-> StoreGet(parserStore, type), invoked |-> "none",
            options |-> <<"undefined">>, outcome |-> "none", yielded |-> FALSE]
  /\ UNCHANGED <<nCalls, config, connection, promise, probeCount, nQueries,
                 queryCount, inflight, probeErr, uncaught, delivered, ret,
                 disconnected, parserStore, manager, regOp>>

\* _typecast(field, next), the rest: with an entry,
\* return parserStore.get(field.type)(field, this.sequelize.options, next),
\* where reading .options of an undefined this.sequelize, or calling an
\* entry that is none, raises a TypeError; without one, return next().
typecastInvoke ==
  /\ tc.pc = "tested"
  /\ LET callee == StoreGet(parserStore, tc.type)
     IN tc' = IF tc.tested = Absent
              THEN [tc EXCEPT !.pc = "done", !.invoked = "next",
                              !.outcome = "returned"]
              ELSE IF ~HasSequelize(tc.receiver) \/ callee = Absent
              THEN [tc EXCEPT !.pc = "done", !.outcome = "TypeError"]
              ELSE [tc EXCEPT !.pc = "done", !.invoked = callee,
                              !.options = SequelizeOptions(tc.receiver),
                              !.outcome = "returned"]
  /\ UNCHANGED <<nCalls, config, connection, promise, probeCount, nQueries,
                 queryCount, inflight, probeErr, uncaught, delivered, ret,
                 disconnected, parserStore, manager, regOp>>

\* The arguments the pool may pass to disconnect() and validate().
Arguments == {Null} \cup {ConnectionRef(c) : c \in 1..nCalls}
\* The errors the transport may report for request r.
ErrorsFor(r, codes) == {RawError(code, r.handler) : code \in codes}

\* connect() and the completion of its probe, with every error code.
Next ==
  \/ \E cfg \in ConfigIds : connect(cfg)
  \/ \E r \in inflight : \E err \in {NoError} \cup ErrorsFor(r, ErrorCodes) :
        probeCallback(r, err)

Spec == Init /\ [][Next]_vars

\* The pool using the Connections it was given.
UseCodes == {"ECONNREFUSED", "<none>"}
NextUse ==
  \/ \E cfg \in ConfigIds : connect(cfg)
  \/ \E r \in inflight : \E err \in {NoError} \cup ErrorsFor(r, {"ECONNREFUSED"}) :
        probeCallback(r, err)
  \/ \E c \in CallIds, m \in Methods, sql \in UserSqls : userQuery(c, m, sql)
  \/ \E r \in inflight : \E err \in {NoError} \cup ErrorsFor(r, UseCodes) :
        queryCallback(r, err)

SpecUse == Init /\ [][NextUse]_vars

\* The pool's lifecycle calls, statements sent through Connections that were
\* passed to disconnect(), and the parser store's administration.
IdleRefreshInputs == {[types |-> {"DATETIME"}, parse |-> "parseCustom"]}
NextIdle ==
  \/ \E cfg \in ConfigIds : connect(cfg)
  \/ \E r \in inflight : \E err \in {NoError} \cup ErrorsFor(r, {"ECONNREFUSED"}) :
        probeCallback(r, err)
  \/ \E c \in disconnected : userQuery(c, "query", "SELECT 1")
  \/ \E x \in Arguments : disconnect(x)
  \/ \E x \in Arguments : validate(x)
  \/ \E m \in Constructed, d \in IdleRefreshInputs : refreshTypeParser(m, d)
  \/ \E m \in Constructed : clearTypeParser(m)

SpecIdle == Init /\ [][NextIdle]_vars

\* The process from the loading of the module: Managers are constructed, the
\* parser store is administered through them, and rows are decoded.
InitRegistry ==
  /\ nCalls = 0
  /\ config = [c \in CallIds |-> "none"]
  /\ connection = [c \in CallIds |-> NoConnection]
  /\ promise = [c \in CallIds |-> NoFuture]
  /\ probeCount = [c \in CallIds |-> 0]
  /\ nQueries = 0
  /\ queryCount = [q \in QueryIds |-> 0]
  /\ inflight = {}
  /\ probeErr = [c \in CallIds |-> NotCompleted]
  /\ uncaught = {}
  /\ delivered = NoDelivery
  /\ ret = NoReturn
  /\ disconnected = {}
  /\ parserStore = [t \in TypeIds |-> Absent]
  /\ manager = [m \in Managers |-> NotConstructed]
  /\ regOp = NoRegOp
  /\ tc = NoCast

NextRegistry ==
  \/ \E m \in Managers, p \in PortInputs : construct(m, p)
  \/ \E m \in Managers, d \in RefreshInputs : refreshTypeParser(m, d)
  \/ \E m \in Managers : clearTypeParser(m)
  \/ \E t \in TypeIds, r \in Receivers : typecastTest(t, r)
  \/ typecastInvoke
  \/ Constructed /= {} /\ RunToCompletion /\ connect("cfgA")

SpecRegistry == InitRegistry /\ [][NextRegistry]_vars

\* ------------------------------------------------------------------ claims
\* Whether the probe callback of connect call c has been invoked, and with
\* which err.
Completed(c) == probeErr[c] /= NotCompleted
ProbeErr(c) == probeErr[c]
FailedCalls == {c \in 1..nCalls : Completed(c) /\ ProbeErr(c) /= NoError}
SucceededCalls == {c \in 1..nCalls : Completed(c) /\ ProbeErr(c) = NoError}

\* The classification table of the specification.
ClassificationTable ==
  [ ECONNREFUSED           |-> "ConnectionRefusedError",
    ER_ACCESS_DENIED_ERROR |-> "AccessDeniedError",
    ENOTFOUND              |-> "HostNotFoundError",
    EHOSTUNREACH           |-> "HostNotReachableError",
    EINVAL                 |-> "InvalidConnectionError" ]
ExpectedKind(code) ==
  IF code \in DOMAIN ClassificationTable THEN ClassificationTable[code]
  ELSE "ConnectionError"

\* C1: when the transport invokes the probe callback of a connect call with
\* an error, the future of that call is rejected with the typed error the
\* classification gives for that raw error.
C1_ProbeErrorRejectsFuture ==
  \A c \in FailedCalls :
    promise[c] = RejectedFuture(SequelizeError(ExpectedKind(ProbeErr(c).code), ProbeErr(c)))

\* C2: no exception is ever raised out of a probe completion callback into
\* the transport's callback stack.
C2_NoFaultRaisedInCallback == uncaught = {}

\* C3: the error constructed for a failed probe has the class the table gives
\* for err.code (ConnectionError for any other or absent code) and wraps the
\* raw error the callback received; one error is constructed per failure.
C3_ErrorKindByCode ==
  /\ \A c \in FailedCalls :
       {u \in uncaught : u.handler = ProbeHandler(c)} =
         {[handler |-> ProbeHandler(c),
           error |-> SequelizeError(ExpectedKind(ProbeErr(c).code), ProbeErr(c))]}
  /\ \A u \in uncaught : u.handler.kind = "probe" => u.handler.call \in FailedCalls

C3_Witness ==
  \E u1, u2 \in uncaught :
    /\ u1.error.parent.code = "ENOTFOUND" /\ u1.error.name = "HostNotFoundError"
    /\ u2.error.parent.code = "<none>" /\ u2.error.name = "ConnectionError"

\* C4: when the probe callback of a connect call is invoked without an error,
\* the future of that call is resolved with the Connection that call built,
\* whose closures capture that call's config.dialectOptions, and the probe
\* was issued through that Connection's client.
C4_ProbeSuccessResolvesOwnConnection ==
  /\ \A c \in SucceededCalls :
       /\ promise[c] = ResolvedFuture(ConnectionRef(c))
       /\ config[c] \in ConfigIds
       /\ connection[c].query.dialectOptions = config[c]
       /\ connection[c].execute.dialectOptions = config[c]
  /\ \A r \in inflight : r.handler.kind = "probe" =>
       /\ r.origin.conn = r.handler.call
       /\ r.client = connection[r.handler.call].query.rds
       /\ r.client = DialectOptionsOf(config[r.handler.call]).awsConfig

C4_Witness ==
  /\ nCalls = 2
  /\ config[1] /= config[2]
  /\ promise[1] = PendingFuture /\ ~Completed(1)
  /\ 2 \in SucceededCalls
  /\ promise[2].state = "resolved" /\ promise[2].value.conn = 2

\* C5: each connect call issues exactly one transport request, its probe, and
\* none after the probe has completed, whether it failed or succeeded.
C5_OneProbePerConnect ==
  \A c \in CallIds :
    /\ probeCount[c] = IF c <= nCalls THEN 1 ELSE 0
    /\ Cardinality({r \in inflight : r.handler = ProbeHandler(c)}) =
         IF c <= nCalls /\ ~Completed(c) THEN 1 ELSE 0
    /\ c > nCalls => ~Completed(c)

C5_Witness ==
  /\ FailedCalls /= {} /\ SucceededCalls /= {}
  /\ inflight = {}
  /\ \A c \in FailedCalls \cup SucceededCalls : probeCount[c] = 1

\* The parameters a statement sent through Connection c must carry: sql from
\* the request, the rest from the dialectOptions of the config of call c.
ExpectedParams(c, sql) ==
  [ sqlStatements          |-> sql,
    awsSecretStoreArn      |-> DialectOptionsOf(config[c]).awsSecretStoreArn,
    dbClusterOrInstanceArn |-> DialectOptionsOf(config[c]).dbClusterOrInstanceArn,
    database               |-> DialectOptionsOf(config[c]).database,
    schema                 |-> DialectOptionsOf(config[c]).schema ]
UserRequests == {r \in inflight : r.handler.kind = "user"}

\* C6: a disconnect(x) call, for any x, returns an already resolved future,
\* does not fail, issues no transport request and changes neither the
\* Connections, the futures nor the parser store; a statement sent through a
\* Connection that was passed to disconnect() is forwarded as before.
C6_DisconnectIsNoOp ==
  [][ /\ (ret' /= ret /\ ret'.op = "disconnect") =>
           /\ ret'.outcome = "returned"
           /\ ret'.future = ResolvedFuture(Undefined)
           /\ UNCHANGED <<nCalls, config, connection, promise, probeCount, nQueries,
                          queryCount, inflight, probeErr, uncaught, delivered,
                          parserStore,
                 manager, regOp, tc>>
      /\ \A r \in inflight' : r.origin.reused =>
           r.params = ExpectedParams(r.origin.conn, r.origin.sql)'
    ]_vars

C6_Witness ==
  \E c \in FailedCalls, d \in disconnected :
    /\ ret.op = "disconnect" /\ ret.arg = ConnectionRef(c)
    /\ ret.future.state = "resolved"
    /\ \E r \in inflight : r.origin.conn = d /\ r.origin.reused
    /\ parserStore["DATETIME"] = "parseCustom"

\* C7: a validate(c) call returns c itself for any c, does not fail, issues
\* no transport request and changes nothing else; a transport request is
\* issued only by a connect() call or by a statement sent through a
\* Connection.
C7_ValidateReturnsArgument ==
  [][ /\ (ret' /= ret /\ ret'.op = "validate") =>
           /\ ret'.outcome = "returned"
           /\ ret'.value = ret'.arg
           /\ UNCHANGED <<nCalls, config, connection, promise, probeCount, nQueries,
                          queryCount, inflight, probeErr, uncaught, delivered,
                          disconnected, parserStore,
                 manager, regOp, tc>>
      /\ (probeCount' /= probeCount \/ ~(inflight' \subseteq inflight)) =>
           (nCalls' = nCalls + 1 \/ nQueries' = nQueries + 1)
    ]_vars

C7_Witness ==
  /\ ret.op = "validate"
  /\ ret.value = ConnectionRef(1)
  /\ promise[1].state = "resolved"
  /\ 2 \in FailedCalls

\* C8: every query(request) or execute(request) on a Connection produces
\* exactly one executeSql call, with sql = request.sql and the secret, cluster,
\* database and schema of the dialectOptions captured at connect time; query
\* and execute produce the same transport call for the same request.
C8_QueryForwardsCapturedOptions ==
  /\ \A q \in QueryIds :
       /\ queryCount[q] = IF q <= nQueries THEN 1 ELSE 0
       /\ Cardinality({r \in inflight : r.handler = UserHandler(q)}) <= queryCount[q]
  /\ \A r \in UserRequests :
       /\ r.origin.sql \in UserSqls
       /\ r.params = ExpectedParams(r.origin.conn, r.origin.sql)
  /\ \A r1, r2 \in UserRequests :
       (r1.origin.conn = r2.origin.conn /\ r1.origin.sql = r2.origin.sql) =>
         (r1.params = r2.params /\ r1.client = r2.client)

C8_Witness ==
  \E r1, r2 \in UserRequests :
    /\ r1.origin.method = "query" /\ r2.origin.method = "execute"
    /\ r1.origin.conn = r2.origin.conn
    /\ r1.origin.sql = "SELECT 1" /\ r2.origin.sql = "SELECT 1"
    /\ r1.params.database = <<"db", "cfgA">>
    /\ r1.params.sqlStatements = "SELECT 1"

\* C9: with connect calls of different configs in flight together and
\* completing in any order, each Connection keeps the options of its own
\* call, and no request sent through one Connection carries a parameter of
\* another call's config.
C9_NoCrossTalk ==
  /\ \A c \in 1..nCalls :
       /\ connection[c].query =
            [dialectOptions |-> config[c], rds |-> DialectOptionsOf(config[c]).awsConfig]
       /\ connection[c].execute = connection[c].query
  /\ \A r \in inflight : \A d \in 1..nCalls :
       (d /= r.origin.conn /\ config[d] /= config[r.origin.conn]) =>
         /\ r.client /= DialectOptionsOf(config[d]).awsConfig
         /\ r.params.awsSecretStoreArn /= DialectOptionsOf(config[d]).awsSecretStoreArn
         /\ r.params.dbClusterOrInstanceArn /= DialectOptionsOf(config[d]).dbClusterOrInstanceArn
         /\ r.params.database /= DialectOptionsOf(config[d]).database
         /\ r.params.schema /= DialectOptionsOf(config[d]).schema

C9_Witness ==
  /\ nCalls = 2
  /\ config[1] /= config[2]
  /\ ~Completed(1) /\ \E r \in inflight : r.handler = ProbeHandler(1)
  /\ 2 \in SucceededCalls
  /\ \E r1, r2 \in UserRequests :
       /\ r1.origin.conn = 2 /\ r2.origin.conn = 2
       /\ r1.origin.method = "query" /\ r2.origin.method = "execute"

\* C10: a failure of a statement sent through a Connection reaches the
\* pool's handler, when the transport completes the request, as the raw error
\* the transport reported: it is not classified, and nothing is thrown.
C10_QueryFailureRelayedRaw ==
  /\ delivered.handler.kind = "user" =>
       /\ delivered.err = delivered.raw
       /\ delivered.raw /= NoError =>
            (delivered.err.code \in ErrorCodes /\ delivered.data = NoHandler)
       /\ promise[delivered.conn] = ResolvedFuture(ConnectionRef(delivered.conn))
  /\ \A u \in uncaught : u.handler.kind /= "user"

C10_Witness ==
  /\ delivered.handler.kind = "user"
  /\ delivered.err.code = "ECONNREFUSED"
  /\ delivered.err.handler = delivered.handler

\* What a lookup made through Manager m reads: every Manager reads the one
\* parserStore of the module.
LookupVia(m, t) == StoreGet(parserStore, t)
\* A constructor, _refreshTypeParser or _clearTypeParser call has just run.
RegistryStep == regOp' /= regOp

\* C11: after a refresh of a data type, a lookup of each of its type ids
\* returns its parse function, and every other type id keeps its entry;
\* after a clear, a lookup returns none for every type id, the defaults
\* installed by the constructor included; between two registry calls the
\* entries do not change, and the test of _typecast reads the current entry.
C11_RefreshClearLookup ==
  [][ /\ (RegistryStep /\ regOp'.op = "refresh") =>
            \A t \in TypeIds :
               StoreGet(parserStore', t) =
                  IF t \in regOp'.dataType.types THEN regOp'.dataType.parse
                  ELSE StoreGet(parserStore, t)
      /\ (RegistryStep /\ regOp'.op = "clear") =>
            \A t \in TypeIds : StoreGet(parserStore', t) = Absent
      /\ ~RegistryStep => parserStore' = parserStore
      /\ (tc' /= tc /\ tc'.pc = "tested") =>
            tc'.tested = StoreGet(parserStore, tc'.type) ]_vars
\* A refresh has overridden the default of one type and the other type still
\* has the default the constructor installed.
C11_Witness ==
  /\ regOp.op = "refresh"
  /\ StoreGet(parserStore, "DATETIME") = "parseCustom"
  /\ StoreGet(parserStore, "DECIMAL") = "parseDefault"

\* C12: a completed _typecast call has returned a value and invoked exactly
\* one decoder: the entry of field.type with the options of the sequelize
\* instance when there is an entry, next() when there is none.
C12_TypecastInvokesOneDecoder ==
  tc.pc = "done" =>
    /\ tc.outcome = "returned"
    /\ tc.tested /= Absent => tc.invoked = tc.tested
    /\ tc.tested = Absent => tc.invoked = "next"

\* The configured port is not set.
PortUnset(p) == p \in {<<"undefined">>, <<"null">>}
\* C13: the constructor sets the port to 3306 exactly when none is
\* configured and keeps a configured one, installs the parse functions of
\* the dialect's data types, and issues no transport request.
C13_ConstructorDefaultsPortAndParsers ==
  [][ \A m \in Managers :
        (~manager[m].constructed /\ manager'[m].constructed) =>
           /\ manager'[m].port = IF PortUnset(manager'[m].configured)
                                 THEN <<"number", DefaultPort>>
                                 ELSE manager'[m].configured
           /\ \A d \in DataTypes : \A t \in d.types :
                 StoreGet(parserStore', t) = d.parse
           /\ inflight' = inflight
           /\ probeCount' = probeCount ]_vars

\* C14: a constructor, refresh or clear call made through one Manager leaves
\* what a lookup through every other constructed Manager returns unchanged.
C14_RegistryScopedToInstance ==
  [][ RegistryStep =>
        \A m \in Constructed \ {regOp'.manager} : \A t \in TypeIds :
           LookupVia(m, t)' = LookupVia(m, t) ]_vars

\* C15: the entry _typecast tested is an entry a refresh or the constructor
\* installed, or none; it is still the entry of the type when the decoder is
\* invoked, so the decoder invoked is the entry tested, and a call that
\* found no entry invokes next().
C15_TypecastInvokesTestedEntry ==
  /\ tc.tested \in ParseFns \cup {Absent}
  /\ tc.pc = "tested" => tc.tested = StoreGet(parserStore, tc.type)
  /\ (tc.pc = "done" /\ tc.invoked \in ParseFns) => tc.invoked = tc.tested
  /\ (tc.pc = "done" /\ tc.tested = Absent) => tc.invoked = "next"
  /\ (tc.pc = "done" /\ tc.outcome = "TypeError") => ~HasSequelize(tc.receiver)
\* A row is decoded with the entry a refresh has just installed.
C15_Witness ==
  /\ tc.pc = "done"
  /\ tc.receiver \in Managers
  /\ tc.invoked = "parseCustom"
  /\ regOp.op = "refresh"
  /\ regOp.dataType.parse = "parseCustom"

\* C16: once the transport has invoked the probe callback of a connect call
\* its future is no longer pending, and a settled future never changes.
C16_CompletedConnectIsSettledOnce ==
  [][ /\ \A c \in CallIds :
           (probeErr'[c] /= NotCompleted) => promise'[c].state /= "pending"
      /\ \A c \in CallIds :
           promise[c].state \in {"resolved", "rejected"} =>
              promise'[c] = promise[c] ]_vars
====
